---- MODULE Spec2Model ----
(***************************************************************************)
(* Field store, override-aware recalculation, raw-value cascade, prior-    *)
(* year import and audit trail of the tax-return backend.                  *)
(*                                                                         *)
(* Strings that carry field identifiers are sequences of tokens: the       *)
(* separators ".", "_" and ":" are tokens of their own, every other token  *)
(* is a maximal run of non-separator characters ("SchC", "netProfit").     *)
(* Numbers are thousandths of a dollar, so that 15.3% and 22% of a whole   *)
(* dollar amount are integers.                                             *)
(***************************************************************************)
EXTENDS Integers, Sequences, FiniteSets, TLC

\* ------------------------------------------------------------------ bounds
MaxOps == 1        \* mutations called one after the other in one behaviour
MaxClock == 1      \* largest value Date.now() takes
Calls == {1, 2}    \* handler invocations that may be in flight together
MaxLen == 5        \* longest field identifier, in tokens, given to fieldIds
MaxFields == 2     \* longest field list given to runDiagnostics

\* ------------------------------------------------------------------ values
\* A field value: k is the JavaScript shape of the innermost value, n the
\* number (thousandths of a dollar) when k = "num", and w the number of
\* { _encrypted: true, data: ... } objects wrapped around it. The strings are
\* "pii" (SSN or EIN shaped), "cipher" (base64), "numstr" (the decimal digits
\* of n), "date" (a date written month first, in year n), "str" (any other
\* non-empty string) and "empty".
NumV(m) == [k |-> "num", n |-> m, w |-> 0]
NullV == [k |-> "null", n |-> 0, w |-> 0]
PiiV == [k |-> "pii", n |-> 0, w |-> 0]
Dollars(d) == d * 1000

\* lib/encryption.ts encryptString: the plaintext itself without a key, a
\* base64 ciphertext (never SSN/EIN shaped) with one.
encryptString(useKey, kind) == IF useKey THEN "cipher" ELSE kind

\* lib/encryption.ts maybeEncryptValue: a PII-shaped string becomes a wrapper
\* object; an object is rebuilt key by key, so the wrappers of an already
\* wrapped value are kept and its innermost string is treated again.
maybeEncryptValue(useKey, v) ==
  IF v.k = "pii"
    THEN [k |-> encryptString(useKey, "pii"), n |-> 0, w |-> v.w + 1]
    ELSE v

\* JavaScript truthiness of a value (object wrappers are truthy).
Truthy(v) ==
  \/ v.w > 0
  \/ v.k \in {"pii", "cipher", "str", "numstr", "date"}
  \/ v.k = "num" /\ v.n # 0

\* ------------------------------------------------------- field identifiers
Seps == {".", "_", ":"}

RECURSIVE ReplaceColonRuns(_)
ReplaceColonRuns(s) ==
  IF s = <<>> THEN <<>>
  ELSE IF Head(s) = ":"
    THEN IF Len(s) > 1 /\ s[2] = ":"
           THEN ReplaceColonRuns(Tail(s))
           ELSE <<".">> \o ReplaceColonRuns(Tail(s))
    ELSE <<Head(s)>> \o ReplaceColonRuns(Tail(s))

RECURSIVE ReplaceSepRuns(_)
\* fieldId.replace(/[:_]+/g, '.')
ReplaceSepRuns(s) ==
  IF s = <<>> THEN <<>>
  ELSE IF Head(s) \in {":", "_"}
    THEN IF Len(s) > 1 /\ s[2] \in {":", "_"}
           THEN ReplaceSepRuns(Tail(s))
           ELSE <<".">> \o ReplaceSepRuns(Tail(s))
    ELSE <<Head(s)>> \o ReplaceSepRuns(Tail(s))

RECURSIVE CollapseDots(_)
\* s.replace(/\.+/g, '.')
CollapseDots(s) ==
  IF s = <<>> THEN <<>>
  ELSE IF Head(s) = "." /\ Len(s) > 1 /\ s[2] = "."
    THEN CollapseDots(Tail(s))
    ELSE <<Head(s)>> \o CollapseDots(Tail(s))

HasTok(s, t) == \E i \in 1..Len(s) : s[i] = t

toDotKey(s) ==
  IF s = <<>> THEN s
  ELSE IF HasTok(s, ".") THEN s
  ELSE ReplaceSepRuns(s)

canonicalDot(s) == IF s = <<>> THEN s ELSE CollapseDots(toDotKey(s))

LastDot(s) == IF HasTok(s, ".")
                THEN CHOOSE i \in 1..Len(s) :
                       s[i] = "." /\ \A j \in (i + 1)..Len(s) : s[j] # "."
                ELSE 0

FirstDot(s) == IF HasTok(s, ".")
                 THEN CHOOSE i \in 1..Len(s) :
                        s[i] = "." /\ \A j \in 1..(i - 1) : s[j] # "."
                 ELSE 0

parseDotKey(s) ==
  IF s = <<>> THEN <<<<>>, <<>>>>
  ELSE LET normalized == canonicalDot(s)
           idx == FirstDot(normalized)
       IN IF idx = 0 THEN <<<<>>, normalized>>
          ELSE <<SubSeq(normalized, 1, idx - 1),
                 SubSeq(normalized, idx + 1, Len(normalized))>>

\* The composite key (formId, fieldId) of the fields table.
Key(form, field) == <<<<form>>, <<field>>>>
DotKey(form, field) == <<form, ".", field>>

K_box1 == Key("W2", "box1")
K_EIN == Key("W2", "EIN")
K_itemized == Key("1040", "itemizedDeduction")
K_line1z == Key("1040", "line1z")
K_line3 == Key("1040", "line3")
K_netProfit == Key("SchC", "netProfit")
K_seTax == Key("SchSE", "seTax")
K_totalIncome == Key("1040", "totalIncome")


\* ------------------------------------------------------ calculation engine
StdDeduction == 14600
CtcAgiThreshold == 200000
SeTaxPerMille == 153
MarginalRatePct == 22
Withholding == 2000

Max(a, b) == IF a >= b THEN a ELSE b

\* forms[form]?.[field]?.value || 0, for a snapshot whose amounts are numbers
\* or absent.
ValueOr0(forms, key) ==
  IF key \in DOMAIN forms /\ Truthy(forms[key]) THEN forms[key].n ELSE 0

SeTaxAtFifteenPct(p) == (p \div 1000) * 150

\* x * 0.153, on thousandths
SeTaxOf(p) == (p \div 1000) * SeTaxPerMille + ((p % 1000) * SeTaxPerMille) \div 1000

MarginalTaxAtTwentyPct(x) == (x \div 100) * 20

\* x * 0.22, on thousandths
MarginalTaxOf(x) == (x \div 100) * MarginalRatePct + ((x % 100) * MarginalRatePct) \div 100

CtcDiagnostic ==
  [fieldId |-> DotKey("1040", "line19"), message |-> "AGI too high for CTC",
   severity |-> "warning"]

EinDiagnostic ==
  [fieldId |-> DotKey("W2", "EIN"), message |-> "Missing EIN", severity |-> "error"]

calculateFederalTax(forms) ==
  LET itemizedDeduction == ValueOr0(forms, K_itemized)
      deduction == Max(Dollars(StdDeduction), itemizedDeduction)
      w2Salary == ValueOr0(forms, K_box1)
      schCProfit == ValueOr0(forms, K_netProfit)
      agi == w2Salary + schCProfit
      ctcEligible == agi < Dollars(CtcAgiThreshold)
      seTax == IF schCProfit > 0 THEN SeTaxOf(schCProfit) ELSE 0
      taxLiability == MarginalTaxOf(Max(agi - deduction, 0)) + seTax
      missingEin == ~(K_EIN \in DOMAIN forms /\ Truthy(forms[K_EIN]))
  IN [refund |-> Max(0, Dollars(Withholding) - taxLiability),
      taxLiability |-> taxLiability,
      diagnostics |->
        (IF ctcEligible THEN <<>> ELSE <<CtcDiagnostic>>)
        \o (IF missingEin THEN <<EinDiagnostic>> ELSE <<>>),
      updatedFields |->
        (IF schCProfit > 0
           THEN <<[key |-> K_seTax, value |-> NumV(seTax)]>> ELSE <<>>)
        \o <<[key |-> K_line1z, value |-> NumV(w2Salary)],
             [key |-> K_line3, value |-> NumV(schCProfit)]>>]

\* -------------------------------------------------------------- hash chain
\* SHA-256 is modelled as collision free: the hash of an entry is the tuple
\* of the components that hashEntry joins.
GENESIS_HASH == <<"taxwise_audit_genesis_2025_v1">>
NoHash == <<>>

hashEntry(previousHash, returnId, key, userId, action, timestamp) ==
  <<IF previousHash = NoHash THEN GENESIS_HASH ELSE previousHash,
    returnId, key, userId, action, timestamp>>

\* getLatestHash: the entries sorted by createdAt, latest first, by a stable
\* sort; the hash of the first of them, null when it has none.
getLatestHash(entries) ==
  IF entries = <<>> THEN NoHash
  ELSE LET first == CHOOSE i \in 1..Len(entries) :
                      /\ \A j \in 1..Len(entries) :
                           entries[j].createdAt <= entries[i].createdAt
                      /\ \A j \in 1..(i - 1) :
                           entries[j].createdAt < entries[i].createdAt
       IN entries[first].hashChainEntry

\* ------------------------------------------------------------------ state
VARIABLES
  fields,    \* the fields table of return r1: composite key -> field document
  ret,       \* the document of return r1
  audit,     \* the audit table, in insertion order
  now,       \* Date.now()
  useKey,    \* an ENCRYPTION_KEY is configured
  th,        \* the handler invocations: locals and position of each
  nops,      \* invocations started so far
  serial,    \* the store runs one invocation at a time
  filings    \* the filings table, in insertion order

vars == <<fields, ret, audit, now, useKey, th, nops, serial, filings>>

RetId == "r1"
RetIds == {RetId, "r9"}          \* r9 names no return
UserId == "u1"
ActorName == "ui"

FieldDoc(value, overridden) ==
  [value |-> value, calculated |-> FALSE, overridden |-> overridden,
   estimated |-> FALSE, lastModifiedBy |-> "seed", updatedAt |-> 0]

ExistingKeys == {K_box1, K_EIN, K_line1z, K_seTax}
EngineTargets == {K_line1z, K_line3, K_seTax}

InitialFields(lockTargets, ein) ==
  [k \in ExistingKeys |->
     FieldDoc(IF k = K_box1 THEN NumV(Dollars(10000))
              ELSE IF k = K_EIN THEN ein
              ELSE IF k = K_line1z THEN NumV(Dollars(10000))
              ELSE NumV(0),
              lockTargets /\ k \in EngineTargets)]

\* returns.forms, the embedded legacy copy of the forms: key -> { value }.
NoForms == [k \in {} |-> NullV]
EmbeddedForms ==
  { NoForms,
    [k \in {K_box1, K_netProfit, K_EIN} |->
       IF k = K_EIN THEN PiiV
       ELSE IF k = K_box1 THEN NumV(Dollars(20000))
       ELSE NumV(Dollars(10000))] }

\* ------------------------------------------------------- call bookkeeping
NoMeta == [present |-> FALSE, isOverride |-> "absent", isEstimated |-> "absent"]
Metas ==
  { NoMeta,
    [present |-> TRUE, isOverride |-> "true", isEstimated |-> "absent"],
    [present |-> TRUE, isOverride |-> "false", isEstimated |-> "absent"],
    [present |-> TRUE, isOverride |-> "absent", isEstimated |-> "true"] }

NoDoc == [found |-> FALSE, value |-> NullV, overridden |-> FALSE, estimated |-> FALSE]
NoResult == [refund |-> 0, taxLiability |-> 0, diagnostics |-> <<>>, updatedFields |-> <<>>]
NoPre == [fields |-> [k \in {} |-> 0], ret |-> 0, audit |-> <<>>]

Idle ==
  [op |-> "idle", pc |-> "idle", retId |-> "", key |-> <<>>, value |-> NullV,
   meta |-> NoMeta, events |-> <<>>, fdoc |-> NoDoc, ts |-> 0,
   hash |-> NoHash, res |-> NoResult, i |-> 0, result |-> "", fault |-> "none",
   writes |-> 0, pre |-> NoPre]

AllIdle == \A c \in Calls : th[c].pc = "idle"
\* A mutation may be called: the serial store runs it after the previous one,
\* the interleaved one lets one more run beside it.
MayCall ==
  IF serial THEN AllIdle /\ nops < MaxOps ELSE nops < MaxOps + 1
\* The idle slots are interchangeable: a new invocation takes the lowest.
MayStart(c) ==
  /\ th[c].pc = "idle"
  /\ \A d \in Calls : d < c => th[d].pc # "idle"
  /\ MayCall

Snapshot == [fields |-> fields, ret |-> ret, audit |-> audit]

Finish(t, outcome) == [t EXCEPT !.pc = "done", !.result = outcome]

InputValues == {NumV(Dollars(20000)), PiiV}

\* The states a return is found in: its engine targets overridden or not, the
\* return locked or not, and W2.EIN empty or holding what an earlier
\* applyFieldUpdate stored for an EIN.
InitialStore(key, eins, regime) ==
  /\ \E sc \in {"plain", "overridden", "locked"}, f \in EmbeddedForms, ein \in eins :
       /\ fields = InitialFields(sc = "overridden", ein)
       /\ ret = [isLocked |-> sc = "locked", refund |-> 0, taxLiability |-> 0,
                 diagnostics |-> <<>>, events |-> <<>>, forms |-> f]
  /\ audit = <<>>
  /\ now = 0
  /\ useKey = key
  /\ th = [c \in Calls |-> Idle]
  /\ nops = 0
  /\ serial = regime
  /\ filings = <<>>

Init ==
  \E key \in BOOLEAN : InitialStore(key, {NullV, maybeEncryptValue(key, PiiV)}, TRUE)

\* ------------------------------------------------------- applyFieldUpdate
FlagAfterTruthy(present, supplied, existing) == present /\ supplied = "true"

\* meta && typeof meta.flag === 'boolean' ? meta.flag : fieldDoc.flag
FlagAfter(present, supplied, existing) ==
  IF present /\ supplied = "true" THEN TRUE
  ELSE IF present /\ supplied = "false" THEN FALSE
  ELSE existing

\* The patch applyFieldUpdate applies to the field document.
ApplyPatchDoc(doc, t, stored) ==
  [doc EXCEPT !.value = stored,
              !.lastModifiedBy = ActorName,
              !.updatedAt = t.ts,
              !.overridden = FlagAfter(t.meta.present, t.meta.isOverride, t.fdoc.overridden),
              !.estimated = FlagAfter(t.meta.present, t.meta.isEstimated, t.fdoc.estimated),
              !.calculated = FALSE]

AuditEntryOfNewValue(t, stored, prevStored) ==
  [returnId |-> t.retId, key |-> t.key, userId |-> UserId,
   action |-> "field:update", hashChainEntry |-> t.hash,
   previousValue |-> stored, newValue |-> stored, createdAt |-> t.ts]

AuditEntry(t, stored, prevStored) ==
  [returnId |-> t.retId, key |-> t.key, userId |-> UserId,
   action |-> "field:update", hashChainEntry |-> t.hash,
   previousValue |-> prevStored, newValue |-> stored, createdAt |-> t.ts]

UpdateEvent(t) ==
  [type |-> "field:update", key |-> t.key, previousValue |-> t.fdoc.value,
   newValue |-> t.value, createdAt |-> t.ts, actor |-> UserId]

\* What updateField is called with: any field, value and meta for return r1,
\* a field that does not exist, a return that does not exist.
UpdateArgs ==
  [retId : {RetId}, key : {K_box1, K_line1z}, value : {NumV(Dollars(20000))},
   meta : Metas]
  \cup [retId : {RetId}, key : {K_EIN}, value : {PiiV}, meta : Metas]
  \cup [retId : {RetId}, key : {K_line3}, value : {NumV(0)}, meta : {NoMeta}]
  \cup [retId : {"r9"}, key : {K_box1}, value : {NumV(0)}, meta : {NoMeta}]

\* What it is called with while another mutation is in flight.
InterleavedArgs ==
  [retId : {RetId}, key : {K_line1z}, value : {NumV(Dollars(20000))},
   meta : {NoMeta, [present |-> TRUE, isOverride |-> "true", isEstimated |-> "absent"]}]

\* The updateField mutation is called: applyFieldUpdate, then
\* recalculateReturnLogic.
UpdateFieldCall(c) ==
  /\ MayStart(c)
  /\ \E a \in IF serial THEN UpdateArgs ELSE InterleavedArgs :
       th' = [th EXCEPT ![c] =
                [Idle EXCEPT !.op = "updateField", !.pc = "a_return",
                             !.retId = a.retId, !.key = a.key, !.value = a.value,
                             !.meta = a.meta, !.pre = Snapshot]]
  /\ nops' = nops + 1
  /\ UNCHANGED <<fields, ret, audit, now, useKey, serial, filings>>

\* db.query('returns')...first(), and the two checks on its result
ApplyLoadReturn(c) ==
  /\ th[c].pc = "a_return"
  /\ th' = [th EXCEPT ![c] =
              IF th[c].retId # RetId THEN Finish(@, "Return not found")
              ELSE IF ret.isLocked THEN Finish(@, "Return is locked")
              ELSE [@ EXCEPT !.pc = "a_field", !.events = ret.events]]
  /\ UNCHANGED <<fields, ret, audit, now, useKey, nops, serial, filings>>

\* db.query('fields')...first(); previousValue and timestamp are taken
ApplyLoadField(c) ==
  /\ th[c].pc = "a_field"
  /\ th' = [th EXCEPT ![c] =
              IF th[c].key \notin DOMAIN fields THEN Finish(@, "Field not found")
              ELSE [@ EXCEPT !.pc = "a_patch",
                             !.fdoc = [found |-> TRUE,
                                       value |-> fields[th[c].key].value,
                                       overridden |-> fields[th[c].key].overridden,
                                       estimated |-> fields[th[c].key].estimated],
                             !.ts = now]]
  /\ UNCHANGED <<fields, ret, audit, now, useKey, nops, serial, filings>>

\* safePatch(db, 'fields', fieldDoc._id, {...})
ApplyPatch(c) ==
  /\ th[c].pc = "a_patch"
  /\ fields' = [fields EXCEPT ![th[c].key] =
                  ApplyPatchDoc(@, th[c], maybeEncryptValue(useKey, th[c].value))]
  /\ th' = [th EXCEPT ![c].pc = "a_audit", ![c].writes = @ + 1]
  /\ UNCHANGED <<ret, audit, now, useKey, nops, serial, filings>>

\* db.query('audit')...collect(), getLatestHash and hashEntry: none of them is
\* inside a try block, so a failure of the query or of the hashing is thrown
\* to the caller.
ApplyAuditQuery(c) ==
  /\ th[c].pc = "a_audit"
  /\ \E fault \in {"none", "query", "hash"} :
       th' = [th EXCEPT ![c] =
                IF fault # "none"
                  THEN [Finish(@, "audit error") EXCEPT !.fault = fault]
                  ELSE [@ EXCEPT !.pc = "a_insert",
                                 !.hash = hashEntry(getLatestHash(audit), th[c].retId,
                                                    th[c].key, UserId,
                                                    "field:update", th[c].ts)]]
  /\ UNCHANGED <<fields, ret, audit, now, useKey, nops, serial, filings>>

\* try { db.insert('audit', ...) } catch { console.warn }
ApplyAuditInsert(c) ==
  /\ th[c].pc = "a_insert"
  /\ \E fail \in BOOLEAN :
       IF fail
         THEN /\ audit' = audit
              /\ th' = [th EXCEPT ![c].pc = "a_events", ![c].fault = "insert"]
         ELSE /\ audit' = Append(audit,
                            AuditEntry(th[c], maybeEncryptValue(useKey, th[c].value),
                                       maybeEncryptValue(useKey, th[c].fdoc.value)))
              /\ th' = [th EXCEPT ![c].pc = "a_events", ![c].writes = @ + 1]
  /\ UNCHANGED <<fields, ret, now, useKey, nops, serial, filings>>

\* events.push(...); safePatch(db, 'returns', returnDoc._id, { events }), and
\* applyFieldUpdate returns { updated: true } to updateField, which goes on
\* to the recalculation.
ApplyEvents(c) ==
  /\ th[c].pc = "a_events"
  /\ ret' = [ret EXCEPT !.events = Append(th[c].events, UpdateEvent(th[c]))]
  /\ th' = [th EXCEPT ![c].pc = "r_return", ![c].result = "updated",
                       ![c].writes = @ + 1]
  /\ UNCHANGED <<fields, audit, now, useKey, nops, serial, filings>>

\* ------------------------------------------------- recalculateReturnLogic
RecalcSkipsMissingOnly(fdoc) == ~fdoc.found

\* if (fieldDoc) { if (fieldDoc.overridden) continue; ... }
RecalcSkips(fdoc) == ~fdoc.found \/ fdoc.overridden

RecalcPatchDocLocking(doc, value, t) ==
  [doc EXCEPT !.value = value, !.calculated = TRUE, !.updatedAt = t,
              !.overridden = TRUE]

\* safePatch(db, 'fields', id, { value, calculated: true, updatedAt })
RecalcPatchDoc(doc, value, t) ==
  [doc EXCEPT !.value = value, !.calculated = TRUE, !.updatedAt = t]

\* safePatch(db, 'returns', id, { refund, taxLiability, diagnostics })
RecalcPatchReturn(r, res) ==
  [r EXCEPT !.refund = res.refund, !.taxLiability = res.taxLiability,
            !.diagnostics = res.diagnostics]

\* The recalculateReturn mutation is called.
RecalcCall(c) ==
  /\ MayStart(c)
  /\ \E r \in RetIds :
       th' = [th EXCEPT ![c] =
                [Idle EXCEPT !.op = "recalculateReturn", !.pc = "r_return",
                             !.retId = r, !.pre = Snapshot]]
  /\ nops' = nops + 1
  /\ UNCHANGED <<fields, ret, audit, now, useKey, serial, filings>>

\* db.query("returns")...first(); the snapshot is built from returnDoc.forms
\* and given to the engine. isLocked is not read.
RecalcLoadReturn(c) ==
  /\ th[c].pc = "r_return"
  /\ th' = [th EXCEPT ![c] =
              IF th[c].retId # RetId THEN Finish(@, "Return not found")
              ELSE [@ EXCEPT !.pc = "r_lookup", !.i = 1, !.writes = 0,
                             !.result = "",
                             !.res = calculateFederalTax(ret.forms),
                             !.pre = Snapshot]]
  /\ UNCHANGED <<fields, ret, audit, now, useKey, nops, serial, filings>>

\* db.query("fields").withIndex("byComposite", ...).first() for the next
\* entry of updatedFields
RecalcLookup(c) ==
  /\ th[c].pc = "r_lookup"
  /\ th[c].i <= Len(th[c].res.updatedFields)
  /\ LET k == th[c].res.updatedFields[th[c].i].key
         doc == IF k \in DOMAIN fields
                  THEN [found |-> TRUE, value |-> fields[k].value,
                        overridden |-> fields[k].overridden,
                        estimated |-> fields[k].estimated]
                  ELSE NoDoc
     IN th' = [th EXCEPT ![c] =
                 IF RecalcSkips(doc) THEN [@ EXCEPT !.i = @ + 1, !.fdoc = doc]
                 ELSE [@ EXCEPT !.pc = "r_patch", !.fdoc = doc]]
  /\ UNCHANGED <<fields, ret, audit, now, useKey, nops, serial, filings>>

RecalcPatch(c) ==
  /\ th[c].pc = "r_patch"
  /\ LET uf == th[c].res.updatedFields[th[c].i]
     IN fields' = [fields EXCEPT ![uf.key] = RecalcPatchDoc(@, uf.value, now)]
  /\ th' = [th EXCEPT ![c].pc = "r_lookup", ![c].i = @ + 1, ![c].writes = @ + 1]
  /\ UNCHANGED <<ret, audit, now, useKey, nops, serial, filings>>

RecalcAggregate(c) ==
  /\ th[c].pc = "r_lookup"
  /\ th[c].i > Len(th[c].res.updatedFields)
  /\ ret' = RecalcPatchReturn(ret, th[c].res)
  /\ th' = [th EXCEPT ![c] = Finish(@, "ok")]
  /\ UNCHANGED <<fields, audit, now, useKey, nops, serial, filings>>

\* The invocation has returned or thrown; its locals are gone.
Return(c) ==
  /\ th[c].pc = "done"
  /\ th' = [th EXCEPT ![c] = Idle]
  /\ UNCHANGED <<fields, ret, audit, now, useKey, nops, serial, filings>>

\* -------------------------------------------------------- syncCalculations
FIELD_MAP(k) ==
  IF k = DotKey("SchC", "Line31") THEN <<DotKey("Sch1", "Line3")>>
  ELSE IF k = DotKey("Sch1", "Line3") THEN <<DotKey("1040", "Line8")>>
  ELSE IF k = DotKey("SchC", "netProfit")
    THEN <<DotKey("SchSE", "seTax"), DotKey("1040", "totalIncome")>>
  ELSE <<>>

CascadeUpsert(fs, key, value) ==
  IF key \in DOMAIN fs THEN [fs EXCEPT ![key].value = value]
  ELSE fs @@ (key :> FieldDoc(value, FALSE))

\* if (fieldDoc) await db.patch(fieldDoc._id, { value })
CascadePatch(fs, key, value) ==
  IF key \in DOMAIN fs THEN [fs EXCEPT ![key].value = value] ELSE fs

cascadeDirectOnly(fs, targets, i, value) ==
  [k \in DOMAIN fs |->
     IF \E j \in i..Len(targets) : parseDotKey(targets[j]) = k
       THEN [fs[k] EXCEPT !.value = value] ELSE fs[k]]

RECURSIVE cascade(_, _, _)
RECURSIVE cascadeTargets(_, _, _, _)
cascade(fs, fieldId, value) ==
  cascadeTargets(fs, FIELD_MAP(canonicalDot(fieldId)), 1, value)

cascadeTargets(fs, targets, i, value) ==
  IF i > Len(targets) THEN fs
  ELSE cascadeTargets(
         cascade(CascadePatch(fs, parseDotKey(targets[i]), value), targets[i], value),
         targets, i + 1, value)

SyncKeys ==
  { <<"SchC", "_", "netProfit">>, <<"SchC", ":", "Line31">>, <<"W2", ".", "box1">> }

syncCalculations ==
  /\ MayCall
  /\ \E r \in RetIds, k \in SyncKeys, v \in InputValues :
       fields' = IF r = RetId THEN cascade(fields, canonicalDot(k), v) ELSE fields
  /\ nops' = nops + 1
  /\ UNCHANGED <<ret, audit, now, useKey, th, serial, filings>>

\* ----------------------------------------------------- importPriorYearData
FieldOrder == <<K_box1, K_EIN, K_line1z, K_line3, K_netProfit, K_seTax, K_totalIncome>>

Candidates(key) ==
  << key[1] \o <<".">> \o key[2], key[1] \o <<"_">> \o key[2],
     key[1] \o <<":">> \o key[2], key[2] >>

\* /name/i.test(String(f.fieldId) + String(f.label || ''))
NameLike(key) ==
  \E i \in 1..Len(key[2]) : key[2][i] \in {"name", "taxpayerName", "firstName"}

ImportAudit(key, prev, new, t) ==
  [returnId |-> RetId, key |-> key, userId |-> UserId,
   action |-> "import:priorYear", hashChainEntry |-> NoHash,
   previousValue |-> prev, newValue |-> new, createdAt |-> t]

\* The value the import writes to field key, or none.
ImportMatch(priorData, key) ==
  LET hits == { j \in 1..4 : Candidates(key)[j] \in DOMAIN priorData }
  IN IF hits # {}
       THEN <<priorData[Candidates(key)[CHOOSE j \in hits : \A h \in hits : j <= h]]>>
     ELSE IF <<"taxpayerName">> \in DOMAIN priorData /\ NameLike(key)
       THEN <<priorData[<<"taxpayerName">>]>>
     ELSE <<>>

RECURSIVE importFields(_, _, _, _)
importFields(st, priorData, j, t) ==
  IF j > Len(FieldOrder) THEN st
  ELSE LET key == FieldOrder[j]
           m == IF key \in DOMAIN st.fields THEN ImportMatch(priorData, key) ELSE <<>>
       IN importFields(
            IF m = <<>> THEN st
            ELSE [fields |-> [st.fields EXCEPT ![key].value = m[1],
                                               ![key].updatedAt = t],
                  audit |-> Append(st.audit,
                                   ImportAudit(key, st.fields[key].value, m[1], t))],
            priorData, j + 1, t)

PriorDatas ==
  { (<<"W2", ".", "box1">> :> NumV(Dollars(20000))),
    (<<"SchSE", "_", "seTax">> :> NumV(Dollars(20000))),
    (<<"box1">> :> PiiV) @@ (<<"taxpayerName">> :> PiiV) }

importPriorYearData ==
  /\ MayCall
  /\ \E r \in RetIds, priorData \in PriorDatas :
       LET st == IF r = RetId
                   THEN importFields([fields |-> fields, audit |-> audit],
                                     priorData, 1, now)
                   ELSE [fields |-> fields, audit |-> audit]
       IN fields' = st.fields /\ audit' = st.audit
  /\ nops' = nops + 1
  /\ UNCHANGED <<ret, now, useKey, th, serial, filings>>

\* ------------------------------------------------------------ setReturnLock
setReturnLock ==
  /\ MayCall
  /\ \E locked \in BOOLEAN : ret' = [ret EXCEPT !.isLocked = locked]
  /\ nops' = nops + 1
  /\ UNCHANGED <<fields, audit, now, useKey, th, serial, filings>>

Tick ==
  /\ now < MaxClock
  /\ now' = now + 1
  /\ UNCHANGED <<fields, ret, audit, useKey, th, nops, serial, filings>>

Next ==
  \/ \E c \in Calls :
       \/ UpdateFieldCall(c) \/ ApplyLoadReturn(c) \/ ApplyLoadField(c) \/ ApplyPatch(c)
       \/ ApplyAuditQuery(c) \/ ApplyAuditInsert(c) \/ ApplyEvents(c)
       \/ RecalcCall(c) \/ RecalcLoadReturn(c) \/ RecalcLookup(c) \/ RecalcPatch(c)
       \/ RecalcAggregate(c) \/ Return(c)
  \/ syncCalculations
  \/ importPriorYearData
  \/ setReturnLock
  \/ Tick

Spec == Init /\ [][Next]_vars

\* The same handlers with their store operations interleaved.
InitConc == InitialStore(FALSE, {NullV}, FALSE)

SpecConc == InitConc /\ [][Next]_vars

\* buildCalculatedPatches(existingFields, updatedFields): one patch per engine
\* result whose field exists and is not overridden.
RECURSIVE buildPatchesFrom(_, _, _, _)
buildPatchesFrom(existingFields, updatedFields, j, t) ==
  IF j > Len(updatedFields) THEN <<>>
  ELSE LET updated == updatedFields[j]
           rest == buildPatchesFrom(existingFields, updatedFields, j + 1, t)
       IN IF updated.key \notin DOMAIN existingFields THEN rest
          ELSE IF existingFields[updated.key].overridden THEN rest
          ELSE <<[key |-> updated.key,
                  patch |-> [value |-> updated.value, calculated |-> TRUE,
                             updatedAt |-> t]]>> \o rest

buildCalculatedPatches(existingFields, updatedFields, t) ==
  buildPatchesFrom(existingFields, updatedFields, 1, t)

\* ================================================================== claims
\* The patches buildCalculatedPatches builds for the engine result a
\* recalculation in progress holds, over the fields as they are now.
PatchesNow(c) ==
  IF th[c].pc \in {"r_lookup", "r_patch"}
    THEN buildCalculatedPatches(fields, th[c].res.updatedFields, now)
    ELSE <<>>

\* recalculateReturnLogic has returned to its caller without throwing.
RecalcReturned(c) == th[c].pc = "done" /\ th[c].result = "ok"

\* applyFieldUpdate has returned { updated: true } to updateField.
ApplyReturned(c) == th[c].pc = "r_return" /\ th[c].result = "updated"

\* The entries of updatedFields that name an existing field.
TargetedFields(c) ==
  { th[c].res.updatedFields[j].key : j \in 1..Len(th[c].res.updatedFields) }
  \cap DOMAIN th[c].pre.fields

\* C1: a recalculation leaves the value and the calculated flag of every
\* overridden field as they were before the call, whatever the engine
\* computed; when every targeted field is overridden it completes
\* successfully without a single field write. buildCalculatedPatches builds
\* no patch for an overridden field.
C1_OverrideInvariant ==
  \A c \in Calls :
    /\ \A j \in 1..Len(PatchesNow(c)) :
         ~fields[PatchesNow(c)[j].key].overridden
    /\ RecalcReturned(c) =>
         /\ \A k \in DOMAIN th[c].pre.fields :
              th[c].pre.fields[k].overridden =>
                /\ fields[k].value = th[c].pre.fields[k].value
                /\ fields[k].calculated = th[c].pre.fields[k].calculated
         /\ (\A k \in TargetedFields(c) : th[c].pre.fields[k].overridden) =>
              th[c].writes = 0 /\ fields = th[c].pre.fields

\* A recalculation has completed whose engine result for an overridden field
\* differs from what the field holds, and it wrote no field.
C1_Witness ==
  \E c \in Calls :
    /\ RecalcReturned(c)
    /\ th[c].writes = 0
    /\ \E j \in 1..Len(th[c].res.updatedFields) :
         LET uf == th[c].res.updatedFields[j]
         IN /\ uf.key \in DOMAIN fields
            /\ th[c].pre.fields[uf.key].overridden
            /\ uf.value # fields[uf.key].value

\* C2: on a locked return both applyFieldUpdate and recalculate fail with
\* "Return is locked" and write nothing: no field, return aggregate, audit
\* record or event is changed.
C2_LockedReturnRejected ==
  \A c \in Calls :
    (th[c].pc = "done" /\ th[c].retId = RetId /\ th[c].pre.ret.isLocked) =>
      /\ th[c].result = "Return is locked"
      /\ Snapshot = th[c].pre

\* C3: while a return stays locked no step changes the value or a flag of
\* any of its fields.
C3_LockedImmutable ==
  [][(ret.isLocked /\ ret'.isLocked) =>
       \A k \in DOMAIN fields :
         /\ k \in DOMAIN fields'
         /\ fields'[k].value = fields[k].value
         /\ fields'[k].calculated = fields[k].calculated
         /\ fields'[k].overridden = fields[k].overridden
         /\ fields'[k].estimated = fields[k].estimated]_vars

\* C4: with the store operations of an updateField and of a recalculation
\* interleaved, the recalculation's patch never changes the value or the
\* calculated flag of a field whose overridden flag is true in the store.
C4_NoOverwriteOfLock ==
  [][\A c \in Calls :
       (th[c].pc = "r_patch" /\ th'[c].pc = "r_lookup") =>
         \A k \in DOMAIN fields :
           fields[k].overridden =>
             /\ fields'[k].value = fields[k].value
             /\ fields'[k].calculated = fields[k].calculated]_vars

\* The snapshot of the Field Store: key -> { value }.
StoreSnapshot == [k \in DOMAIN fields |-> fields[k].value]

\* C5: after updateField has written a number to W2.box1 or SchC.netProfit
\* and its recalculation has completed, taxLiability, refund and the
\* non-overridden derived fields are the engine's results for the values the
\* Field Store holds.
C5_RecalcReadsStore ==
  \A c \in Calls :
    (/\ RecalcReturned(c)
     /\ th[c].op = "updateField"
     /\ th[c].key \in {K_box1, K_netProfit}
     /\ th[c].value.k = "num") =>
      LET expected == calculateFederalTax(StoreSnapshot)
      IN /\ ret.taxLiability = expected.taxLiability
         /\ ret.refund = expected.refund
         /\ \A j \in 1..Len(expected.updatedFields) :
              LET uf == expected.updatedFields[j]
              IN (uf.key \in DOMAIN fields /\ ~fields[uf.key].overridden) =>
                   fields[uf.key].value = uf.value

\* C6: no operation creates or deletes a field: the keys of the Field Store
\* are those the return was created with, and buildCalculatedPatches builds
\* patches for existing fields only.
C6_NoImplicitCreation ==
  /\ DOMAIN fields = ExistingKeys
  /\ \A c \in Calls : \A j \in 1..Len(PatchesNow(c)) :
       PatchesNow(c)[j].key \in DOMAIN fields

\* A recalculation has completed whose engine result named a field that does
\* not exist.
C6_Witness ==
  \E c \in Calls :
    /\ RecalcReturned(c)
    /\ \E j \in 1..Len(th[c].res.updatedFields) :
         th[c].res.updatedFields[j].key \notin DOMAIN fields

RecalcPcs == {"r_return", "r_lookup", "r_patch"}

\* C7: a step of the recalculation changes of a field nothing but value,
\* calculated (to true) and updatedAt: overridden, estimated and
\* lastModifiedBy stay as they are. A patch of buildCalculatedPatches holds
\* those three keys only.
C7_EngineWriteFrame ==
  [][\A c \in Calls :
       /\ \A j \in 1..Len(PatchesNow(c)) :
            /\ DOMAIN PatchesNow(c)[j].patch = {"value", "calculated", "updatedAt"}
            /\ PatchesNow(c)[j].patch.calculated
       /\ (th[c].pc \in RecalcPcs /\ th'[c] # th[c]) =>
         \A k \in DOMAIN fields :
           /\ fields'[k].overridden = fields[k].overridden
           /\ fields'[k].estimated = fields[k].estimated
           /\ fields'[k].lastModifiedBy = fields[k].lastModifiedBy
           /\ fields'[k] # fields[k] => fields'[k].calculated]_vars

\* The recalculation has just written an engine value to a field.
C7_Witness ==
  \E c \in Calls :
    /\ th[c].pc = "r_lookup"
    /\ th[c].writes > 0
    /\ \E k \in DOMAIN fields :
         /\ fields[k].calculated
         /\ fields[k].value # th[c].pre.fields[k].value

\* The flag a meta key asks for: the supplied boolean, else the existing one.
Requested(present, supplied, existing) ==
  CASE present /\ supplied = "true" -> TRUE
    [] present /\ supplied = "false" -> FALSE
    [] OTHER -> existing

\* C8: applyFieldUpdate sets overridden to meta.isOverride and estimated to
\* meta.isEstimated only when that key is supplied; a flag whose key, or meta
\* itself, is absent is the same before and after the call, as are the flags
\* of every other field.
C8_FlagHandling ==
  \A c \in Calls : ApplyReturned(c) =>
    \A k \in DOMAIN fields :
      LET before == th[c].pre.fields[k]
          m == th[c].meta
      IN IF k = th[c].key
           THEN /\ fields[k].overridden =
                     Requested(m.present, m.isOverride, before.overridden)
                /\ fields[k].estimated =
                     Requested(m.present, m.isEstimated, before.estimated)
           ELSE /\ fields[k].overridden = before.overridden
                /\ fields[k].estimated = before.estimated

\* applyFieldUpdate has returned from a call without meta on an overridden
\* field.
C8_Witness ==
  \E c \in Calls :
    /\ ApplyReturned(c)
    /\ ~th[c].meta.present
    /\ th[c].pre.fields[th[c].key].overridden
    /\ fields[th[c].key].overridden

\* C9: a failure of any step of the audit emission (the query for the
\* existing entries, the hashing, the insert) does not reach the caller of
\* applyFieldUpdate.
C9_AuditFailureNonFatal ==
  \A c \in Calls :
    th[c].fault # "none" => ~(th[c].pc = "done" /\ th[c].result = "audit error")

\* C10 as stated: a successful applyFieldUpdate has inserted exactly one audit
\* record, whose previousValue is the value the field held before the update
\* and whose newValue is the value the update stored.
C10_AuditProvenance ==
  \A c \in Calls : ApplyReturned(c) =>
    /\ Len(audit) = Len(th[c].pre.audit) + 1
    /\ LET e == audit[Len(audit)]
       IN /\ e.returnId = th[c].retId /\ e.key = th[c].key
          /\ e.previousValue = th[c].pre.fields[th[c].key].value
          /\ e.newValue = fields[th[c].key].value

\* C10 as amended: a successful applyFieldUpdate whose audit insert did not
\* fail has inserted exactly one audit record, whose newValue is the value
\* the update stored and whose previousValue is maybeEncryptValue of the value
\* the field held before the update; when the insert failed no record was
\* added.
C10_AuditProvenanceAmended ==
  \A c \in Calls : ApplyReturned(c) =>
    IF th[c].fault = "insert" THEN audit = th[c].pre.audit
    ELSE /\ Len(audit) = Len(th[c].pre.audit) + 1
         /\ SubSeq(audit, 1, Len(audit) - 1) = th[c].pre.audit
         /\ LET e == audit[Len(audit)]
            IN /\ e.returnId = th[c].retId /\ e.key = th[c].key
               /\ e.action = "field:update"
               /\ e.previousValue =
                    maybeEncryptValue(useKey, th[c].pre.fields[th[c].key].value)
               /\ e.newValue = fields[th[c].key].value

\* applyFieldUpdate has returned after replacing a value by a different one,
\* and the audit record holds both.
C10_Witness ==
  \E c \in Calls :
    /\ ApplyReturned(c)
    /\ th[c].fault = "none"
    /\ audit # <<>>
    /\ audit[Len(audit)].previousValue # audit[Len(audit)].newValue
    /\ audit[Len(audit)].previousValue = th[c].pre.fields[th[c].key].value

\* ============================================= the pure functions, called
\* A call of a pure function: its identifier argument in key, its value
\* argument in value, its result in res once pc is "done".
FnCall(op, key, value) ==
  [Idle EXCEPT !.op = op, !.pc = "call", !.key = key, !.value = value]

\* The store the pure functions are called beside.
QuietStore ==
  /\ fields = InitialFields(FALSE, NullV)
  /\ ret = [isLocked |-> FALSE, refund |-> 0, taxLiability |-> 0,
            diagnostics |-> <<>>, events |-> <<>>, forms |-> NoForms]

FnFrame ==
  /\ audit = <<>>
  /\ now = 0
  /\ useKey = FALSE
  /\ nops = 0
  /\ serial = TRUE
  /\ filings = <<>>

\* ------------------------------------------------------------ lib/fieldIds
IdTokens == {"1040", "FS", ".", "_", ":"}

RECURSIVE StringsOfLen(_)
StringsOfLen(n) ==
  IF n = 0 THEN {<<>>}
  ELSE {<<t>> \o s : t \in IdTokens, s \in StringsOfLen(n - 1)}

Identifiers == UNION {StringsOfLen(n) : n \in 0..MaxLen}

InitFieldIds ==
  /\ \E op \in {"canonicalDot", "parseDotKey"}, s \in Identifiers :
       th = [c \in Calls |-> IF c = 1 THEN FnCall(op, s, NullV) ELSE Idle]
  /\ QuietStore
  /\ FnFrame

CanonicalDotCall(c) ==
  /\ th[c].op = "canonicalDot" /\ th[c].pc = "call"
  /\ th' = [th EXCEPT ![c].pc = "done", ![c].result = "ok",
                      ![c].res = canonicalDot(th[c].key)]
  /\ UNCHANGED <<fields, ret, audit, now, useKey, nops, serial, filings>>

ParseDotKeyCall(c) ==
  /\ th[c].op = "parseDotKey" /\ th[c].pc = "call"
  /\ th' = [th EXCEPT ![c].pc = "done", ![c].result = "ok",
                      ![c].res = parseDotKey(th[c].key)]
  /\ UNCHANGED <<fields, ret, audit, now, useKey, nops, serial, filings>>

NextFieldIds == \E c \in Calls : CanonicalDotCall(c) \/ ParseDotKeyCall(c)

SpecFieldIds == InitFieldIds /\ [][NextFieldIds]_vars

\* A call of op has returned.
Returned(c, op) == th[c].op = op /\ th[c].pc = "done"

NoSepIn(s) == \A i \in 1..Len(s) : s[i] \notin Seps

\* C11: canonicalDot applied to its own result returns that result, and F_X,
\* F:X and F.X, for F and X without a separator, all give F.X.
C11_CanonicalIdempotent ==
  \A c \in Calls : Returned(c, "canonicalDot") =>
    LET s == th[c].key
        r == th[c].res
    IN /\ canonicalDot(r) = r
       /\ (Len(s) = 3 /\ s[2] \in Seps /\ s[1] \notin Seps /\ s[3] \notin Seps) =>
            r = <<s[1], ".", s[3]>>

\* canonicalDot has returned 1040.FS for the underscore dialect 1040_FS.
C11_Witness ==
  \E c \in Calls :
    /\ Returned(c, "canonicalDot")
    /\ th[c].key = <<"1040", "_", "FS">>
    /\ th[c].res = <<"1040", ".", "FS">>

\* C12: the result of canonicalDot is its input with every run of ':' or '_'
\* replaced by '.' and every run of '.' collapsed to one, also when the input
\* holds a '.'; no ':' or '_' is left in it.
C12_CanonicalForm ==
  \A c \in Calls : Returned(c, "canonicalDot") =>
    /\ th[c].res = CollapseDots(ReplaceSepRuns(th[c].key))
    /\ ~HasTok(th[c].res, ":") /\ ~HasTok(th[c].res, "_")

\* C13: parseDotKey returns, for every identifier, the part of the canonical
\* form before its first '.' as formId and the part after it as fieldId; an
\* identifier without a separator comes back whole as fieldId with formId "".
C13_SplitAtFirstDot ==
  \A c \in Calls :
    /\ (th[c].op = "parseDotKey" /\ th[c].pc = "done") => th[c].result = "ok"
    /\ Returned(c, "parseDotKey") =>
         LET s == th[c].key
             formId == th[c].res[1]
             fieldId == th[c].res[2]
         IN /\ ~HasTok(formId, ".")
            /\ IF HasTok(canonicalDot(s), ".")
                 THEN formId \o <<".">> \o fieldId = canonicalDot(s)
                 ELSE formId = <<>> /\ fieldId = canonicalDot(s)
            /\ NoSepIn(s) => formId = <<>> /\ fieldId = s

\* parseDotKey has split an identifier that holds two dots at the first one.
C13_Witness ==
  \E c \in Calls :
    /\ Returned(c, "parseDotKey")
    /\ th[c].key = <<"1040", ".", "FS", ".", "FS">>
    /\ th[c].res = << <<"1040">>, <<"FS", ".", "FS">> >>

\* -------------------------------------------- syncCalculations, call by call
\* The fields the configured FIELD_MAP names, as composite keys.
K_Line31 == Key("SchC", "Line31")
K_Sch1Line3 == Key("Sch1", "Line3")
K_Line8 == Key("1040", "Line8")
CascadeKeys == {K_netProfit, K_seTax, K_totalIncome, K_Line31, K_Sch1Line3, K_Line8}

\* The identifiers syncCalculations is called with: a source in each dialect.
CascadeSources ==
  { <<form, sep, field>> : form \in {"SchC"}, sep \in Seps,
                           field \in {"netProfit", "Line31"} }
  \cup {<<"Sch1", ".", "Line3">>, <<"W2", "_", "box1">>}

InitCascade ==
  /\ \E present \in SUBSET CascadeKeys :
       fields = [k \in present \cup {K_box1} |-> FieldDoc(NumV(0), k = K_seTax)]
  /\ ret = [isLocked |-> FALSE, refund |-> 0, taxLiability |-> 0,
            diagnostics |-> <<>>, events |-> <<>>, forms |-> NoForms]
  /\ \E r \in RetIds, k \in CascadeSources, v \in InputValues :
       th = [c \in Calls |->
               IF c = 1
                 THEN [FnCall("syncCalculations", k, v) EXCEPT !.retId = r]
                 ELSE Idle]
  /\ FnFrame

\* The handler of syncCalculations, with its arguments kept for the caller.
SyncCall(c) ==
  /\ th[c].op = "syncCalculations" /\ th[c].pc = "call"
  /\ IF th[c].retId # RetId
       THEN /\ th' = [th EXCEPT ![c] = Finish([@ EXCEPT !.pre = Snapshot],
                                              "Return not found")]
            /\ UNCHANGED fields
       ELSE /\ fields' = cascade(fields, canonicalDot(th[c].key), th[c].value)
            /\ th' = [th EXCEPT ![c] = Finish([@ EXCEPT !.pre = Snapshot], "ok")]
  /\ UNCHANGED <<ret, audit, now, useKey, nops, serial, filings>>

NextCascade == \E c \in Calls : SyncCall(c)

SpecCascade == InitCascade /\ [][NextCascade]_vars

\* The targets of the dependency edges that leave canonical key k.
EdgeTargets(k) == {FIELD_MAP(k)[j] : j \in 1..Len(FIELD_MAP(k))}

\* The canonical keys reached from k over one to n dependency edges.
RECURSIVE ReachWithin(_, _)
ReachWithin(k, n) ==
  IF n = 0 THEN {}
  ELSE EdgeTargets(k) \cup UNION {ReachWithin(t, n - 1) : t \in EdgeTargets(k)}

\* FIELD_MAP has three sources, so no path without a repeat is longer.
Reachable(k) == ReachWithin(k, 3)

Wages == {<<>>, <<0>>, <<20000>>, <<190000>>, <<200000>>}
Profits == {<<>>, <<0 - 1000>>, <<0>>, <<1>>, <<10000>>}
Itemizeds == {<<>>, <<12000>>, <<16000>>}

SnapshotOf(w, p, i) ==
  LET present == (IF w = <<>> THEN {} ELSE {K_box1})
                 \cup (IF p = <<>> THEN {} ELSE {K_netProfit})
                 \cup (IF i = <<>> THEN {} ELSE {K_itemized})
  IN [k \in present |->
        NumV(Dollars(IF k = K_box1 THEN w[1]
                     ELSE IF k = K_netProfit THEN p[1] ELSE i[1]))]

EngineSnapshots == {SnapshotOf(w, p, i) : w \in Wages, p \in Profits, i \in Itemizeds}

InitEngine ==
  /\ \E a \in EngineSnapshots, b \in EngineSnapshots :
       th = [c \in Calls |->
               FnCall("calculateFederalTax", <<>>, IF c = 1 THEN a ELSE b)]
  /\ QuietStore
  /\ FnFrame

CalculateCall(c) ==
  /\ th[c].op = "calculateFederalTax" /\ th[c].pc = "call"
  /\ th' = [th EXCEPT ![c].pc = "done", ![c].result = "ok",
                      ![c].res = calculateFederalTax(th[c].value)]
  /\ UNCHANGED <<fields, ret, audit, now, useKey, nops, serial, filings>>

NextEngine == \E c \in Calls : CalculateCall(c)

SpecEngine == InitEngine /\ [][NextEngine]_vars

\* The dollars call c's snapshot holds for a field, 0 when it is absent.
ArgDollars(c, key) ==
  IF key \in DOMAIN th[c].value THEN th[c].value[key].n \div 1000 ELSE 0

WagesOf(c) == ArgDollars(c, K_box1)
ProfitOf(c) == ArgDollars(c, K_netProfit)
ItemizedOf(c) == ArgDollars(c, K_itemized)
TaxableOf(c) ==
  Max(WagesOf(c) + ProfitOf(c) - Max(StdDeduction, ItemizedOf(c)), 0)

\* C15: taxLiability is 22% of max(w + p - max(14600, i), 0) plus 15.3% of a
\* positive p, and refund is max(2000 - taxLiability, 0), never negative; of
\* two snapshots that differ in w only the one with more wages has no less
\* liability, and of two that differ in i only the one with the larger i has
\* no more, and strictly less when that i exceeds the standard deduction and
\* the other's taxable income is positive. Amounts are thousandths of a dollar.
C15_EngineResult ==
  \A c \in Calls : Returned(c, "calculateFederalTax") =>
    LET r == th[c].res
    IN /\ r.taxLiability =
            220 * TaxableOf(c) + (IF ProfitOf(c) > 0 THEN 153 * ProfitOf(c) ELSE 0)
       /\ r.refund = Max(2000 * 1000 - r.taxLiability, 0)
       /\ r.refund >= 0
       /\ \A d \in Calls : Returned(d, "calculateFederalTax") =>
            LET q == th[d].res
            IN /\ (/\ ProfitOf(c) = ProfitOf(d) /\ ItemizedOf(c) = ItemizedOf(d)
                   /\ WagesOf(c) <= WagesOf(d)) =>
                    r.taxLiability <= q.taxLiability
               /\ (/\ ProfitOf(c) = ProfitOf(d) /\ WagesOf(c) = WagesOf(d)
                   /\ ItemizedOf(c) <= ItemizedOf(d)) =>
                    /\ q.taxLiability <= r.taxLiability
                    /\ (/\ ItemizedOf(c) < ItemizedOf(d)
                        /\ ItemizedOf(d) > StdDeduction
                        /\ TaxableOf(c) > 0) =>
                         q.taxLiability < r.taxLiability

\* Wages 20000 with itemized 12000 and with itemized 16000: both calls have
\* returned, the first with a positive liability, the second with a lower one.
C15_Witness ==
  /\ \A c \in Calls : Returned(c, "calculateFederalTax") /\ WagesOf(c) = 20000
  /\ ItemizedOf(1) = 12000 /\ ItemizedOf(2) = 16000
  /\ th[1].res.taxLiability > 0
  /\ th[2].res.taxLiability < th[1].res.taxLiability

\* The values updatedFields gives for SchSE.seTax.
SeTaxEntries(c) ==
  { th[c].res.updatedFields[j].value :
      j \in { h \in 1..Len(th[c].res.updatedFields) :
                th[c].res.updatedFields[h].key = K_seTax } }

\* C16: updatedFields holds an entry for SchSE.seTax exactly when the profit
\* is greater than 0; its value is then 0.153 times the profit (1530 for a
\* profit of 10000) and taxLiability is greater than 0.
C16_SeTaxTrigger ==
  \A c \in Calls : Returned(c, "calculateFederalTax") =>
    /\ (SeTaxEntries(c) # {}) <=> (ProfitOf(c) > 0)
    /\ ProfitOf(c) > 0 =>
         /\ SeTaxEntries(c) = {NumV(153 * ProfitOf(c))}
         /\ th[c].res.taxLiability > 0
    /\ ProfitOf(c) = 10000 => SeTaxEntries(c) = {NumV(Dollars(1530))}

\* The engine has returned an SE tax of 1530 for a profit of 10000 and no
\* wages.
C16_Witness ==
  \E c \in Calls :
    /\ Returned(c, "calculateFederalTax")
    /\ ProfitOf(c) = 10000 /\ WagesOf(c) = 0
    /\ SeTaxEntries(c) = {NumV(Dollars(1530))}
    /\ th[c].res.taxLiability > 0

\* The CTC-ineligibility diagnostics of a result.
CtcDiagnostics(c) ==
  { j \in 1..Len(th[c].res.diagnostics) :
      th[c].res.diagnostics[j].fieldId = DotKey("1040", "line19") }

\* C17: the result holds exactly one diagnostic for 1040.line19 when wages
\* plus profit are above 200000 and none when they are not; an AGI of exactly
\* 200000 is not above.
C17_CtcThreshold ==
  \A c \in Calls : Returned(c, "calculateFederalTax") =>
    Cardinality(CtcDiagnostics(c)) =
      (IF WagesOf(c) + ProfitOf(c) > 200000 THEN 1 ELSE 0)

\* x, in thousandths, rounded to the nearest cent with halves rounded up.
RoundHalfUpToCents(x) == ((x + 5) \div 10) * 10

\* C18: the SE tax, taxLiability and refund the engine returns are whole
\* cents: the exact results rounded to the nearest cent, halves up.
C18_RoundedToCents ==
  \A c \in Calls : Returned(c, "calculateFederalTax") =>
    LET r == th[c].res
        exactLiability ==
          220 * TaxableOf(c) + (IF ProfitOf(c) > 0 THEN 153 * ProfitOf(c) ELSE 0)
    IN /\ r.taxLiability = RoundHalfUpToCents(exactLiability)
       /\ r.refund = RoundHalfUpToCents(Max(2000 * 1000 - exactLiability, 0))
       /\ \A v \in SeTaxEntries(c) : v.n = RoundHalfUpToCents(153 * ProfitOf(c))

\* ------------------------------------------------ runDiagnostics, called
StrV == [k |-> "str", n |-> 0, w |-> 0]
EmptyV == [k |-> "empty", n |-> 0, w |-> 0]
NumStrV(m) == [k |-> "numstr", n |-> m, w |-> 0]

\* A document of the field list: fieldId is its identifier when hasFieldId,
\* formId is <<>> when the document has none.
DiagDoc(formId, fieldId, value) ==
  [formId |-> formId, fieldId |-> fieldId, hasFieldId |-> TRUE, value |-> value]

\* f.fieldId ?? (f.formId ? `${f.formId}.${f.fieldId}` : ''), canonicalDot of it
normalizedId(f) ==
  canonicalDot(IF f.hasFieldId THEN f.fieldId
               ELSE IF f.formId # <<>> THEN f.formId \o <<".", "undefined">>
               ELSE <<>>)

\* The tokens that hold, in any letter case, the text a rule searches for.
SsnTokens == {"SSN", "ssn", "taxpayerSSN"}
EinTokens == {"EIN", "ein", "employerEIN"}
AmountTokens == {"WagesAmt", "amount", "wages"}
CtcTokens == {"CTC", "childTaxCredit"}
DependentAgeTokens == {"dependentAge", "dependentDob"}

HasTokenOf(id, tokens) == \E i \in 1..Len(id) : id[i] \in tokens

\* String(f.value) has the format the rule of its field expects: an SSN or EIN
\* shaped string is taken to be of the kind of the field it is in.
WellFormed(v) == v.k = "pii" /\ v.w = 0

Diagnostic(f, message) ==
  [fieldId |-> normalizedId(f), severity |-> "error", message |-> message,
   form |-> f.formId]

RECURSIVE FlatMapFields(_, _, _)
\* fields.filter(test).map(f => diagnostic), test and message by rule name
FlatMapFields(fieldList, rule, j) ==
  IF j > Len(fieldList) THEN <<>>
  ELSE LET f == fieldList[j]
           id == normalizedId(f)
           hit ==
             CASE rule = "ssn" ->
                    HasTokenOf(id, SsnTokens) /\ Truthy(f.value) /\ ~WellFormed(f.value)
               [] rule = "ein" ->
                    HasTokenOf(id, EinTokens) /\ Truthy(f.value) /\ ~WellFormed(f.value)
               [] OTHER -> FALSE
           message ==
             IF rule = "ssn" THEN "Invalid SSN format (expected XXX-XX-XXXX)"
             ELSE "Invalid EIN format (expected XX-XXXXXXX)"
       IN (IF hit THEN <<Diagnostic(f, message)>> ELSE <<>>)
          \o FlatMapFields(fieldList, rule, j + 1)

ssnRule(fieldList) == FlatMapFields(fieldList, "ssn", 1)
einRule(fieldList) == FlatMapFields(fieldList, "ein", 1)

NonPositiveNumber(v) == v.k = "num" /\ v.n <= 0

\* typeof f.value === 'number' && f.value < 0
NegativeNumber(v) == v.k = "num" /\ v.n < 0

RECURSIVE positiveNumberFrom(_, _)
positiveNumberFrom(fieldList, j) ==
  IF j > Len(fieldList) THEN <<>>
  ELSE LET f == fieldList[j]
       IN (IF HasTokenOf(normalizedId(f), AmountTokens) /\ NegativeNumber(f.value)
             THEN <<Diagnostic(f, "Value must be positive")>> ELSE <<>>)
          \o positiveNumberFrom(fieldList, j + 1)

positiveNumberRule(fieldList) == positiveNumberFrom(fieldList, 1)

FilingStatusKey == DotKey("1040", "FS")

filingStatusRule(fieldList) ==
  LET hits == {j \in 1..Len(fieldList) : normalizedId(fieldList[j]) = FilingStatusKey}
      found == hits # {}
      fs == fieldList[CHOOSE j \in hits : \A h \in hits : j <= h]
  IN IF ~found \/ ~Truthy(fs.value)
       THEN <<[fieldId |-> FilingStatusKey, severity |-> "error",
               message |-> "Filing Status is required",
               form |-> IF found /\ fs.formId # <<>> THEN fs.formId ELSE <<"1040">>]>>
       ELSE <<>>

DependentAgeLimit == 18

\* f.value === true || 'yes' || '1' || 1, for the number and digit strings
ClaimsCtc(f) ==
  /\ HasTokenOf(normalizedId(f), CtcTokens)
  /\ f.value.k \in {"num", "numstr"} /\ f.value.n = Dollars(1)

\* new Date().getFullYear() at clock value t: the clock values of the model
\* lie in successive years.
BaseYear == 2025
YearOf(t) == BaseYear + t

\* The age read from a number, from the leading digits of a string, or, for a
\* string that new Date() parses, today's year less the year of the date.
HasAge(v) == v.k \in {"num", "numstr", "date"}
AgeOf(v) == IF v.k = "date" THEN YearOf(now) - v.n ELSE v.n \div 1000

RECURSIVE dependentAgeFrom(_, _)
dependentAgeFrom(fieldList, j) ==
  IF j > Len(fieldList) THEN <<>>
  ELSE LET f == fieldList[j]
       IN (IF /\ HasTokenOf(normalizedId(f), DependentAgeTokens)
              /\ HasAge(f.value) /\ AgeOf(f.value) >= DependentAgeLimit
             THEN <<Diagnostic(f, "Dependent appears too old for Child Tax Credit")>>
             ELSE <<>>)
          \o dependentAgeFrom(fieldList, j + 1)

dependentAgeRule(fieldList) ==
  IF \E j \in 1..Len(fieldList) : ClaimsCtc(fieldList[j])
    THEN dependentAgeFrom(fieldList, 1) ELSE <<>>

\* rules.flatMap(rule => rule(fields))
runDiagnostics(fieldList) ==
  ssnRule(fieldList) \o einRule(fieldList) \o positiveNumberRule(fieldList)
  \o filingStatusRule(fieldList) \o dependentAgeRule(fieldList)

\* The filing status under each of its identifications, empty and filled in;
\* a wage amount that is negative, zero, positive, or a string; another field.
FilingStatusIds ==
  { <<<<"1040">>, <<"1040", sep, "FS">>>> : sep \in Seps } \cup {<<<<"1040">>, <<"FS">>>>}

DiagDocs ==
  { DiagDoc(id[1], id[2], v) : id \in FilingStatusIds, v \in {EmptyV, StrV} }
  \cup { DiagDoc(<<"W2">>, <<"WagesAmt">>, v) :
           v \in {NumV(Dollars(0 - 1000)), NumV(0), NumV(Dollars(1000)),
                  NumStrV(Dollars(0 - 1000))} }
  \cup { DiagDoc(<<"W2">>, <<"box1">>, NumV(Dollars(0 - 5))) }

RECURSIVE FieldListsOfLen(_)
FieldListsOfLen(n) ==
  IF n = 0 THEN {<<>>}
  ELSE {<<f>> \o l : f \in DiagDocs, l \in FieldListsOfLen(n - 1)}

FieldLists == UNION {FieldListsOfLen(n) : n \in 0..MaxFields}

InitDiagnostics ==
  /\ \E l \in FieldLists :
       th = [c \in Calls |-> IF c = 1 THEN FnCall("runDiagnostics", <<>>, l) ELSE Idle]
  /\ QuietStore
  /\ FnFrame

RunDiagnosticsCall(c) ==
  /\ th[c].op = "runDiagnostics" /\ th[c].pc = "call"
  /\ th' = [th EXCEPT ![c].pc = "done", ![c].result = "ok",
                      ![c].res = runDiagnostics(th[c].value)]
  /\ UNCHANGED <<fields, ret, audit, now, useKey, nops, serial, filings>>

NextDiagnostics == \E c \in Calls : RunDiagnosticsCall(c)

SpecDiagnostics == InitDiagnostics /\ [][NextDiagnostics]_vars

\* The document is the filing status of form 1040, named in one of the three
\* dialects or by formId and fieldId.
IsFilingStatus(f) ==
  \/ \E sep \in Seps : f.fieldId = <<"1040", sep, "FS">>
  \/ f.formId = <<"1040">> /\ f.fieldId = <<"FS">>

\* C19: runDiagnostics returns exactly one error diagnostic for 1040.FS when
\* the field list holds no filing status with a non-empty value, and none
\* when it holds one, whether it is named 1040_FS, 1040:FS, 1040.FS or by
\* formId 1040 and fieldId FS.
C19_FilingStatusRule ==
  \A c \in Calls : Returned(c, "runDiagnostics") =>
    LET l == th[c].value
        filled == \E j \in 1..Len(l) : IsFilingStatus(l[j]) /\ l[j].value # EmptyV
        raised == { j \in 1..Len(th[c].res) :
                      /\ th[c].res[j].fieldId = <<"1040", ".", "FS">>
                      /\ th[c].res[j].severity = "error" }
    IN Cardinality(raised) = (IF filled THEN 0 ELSE 1)

\* The positions of the field list that hold a negative wage amount.
NegativeAmounts(l) ==
  { j \in 1..Len(l) :
      /\ l[j].fieldId = <<"WagesAmt">>
      /\ l[j].value.k = "num" /\ l[j].value.n < 0 }

\* C20: runDiagnostics returns one error diagnostic "Value must be positive"
\* for each amount field whose value is a negative number, naming that field,
\* and none for an amount field whose value is zero or positive.
C20_NonNegativeAmounts ==
  \A c \in Calls : Returned(c, "runDiagnostics") =>
    LET l == th[c].value
        raised == { j \in 1..Len(th[c].res) :
                      th[c].res[j].message = "Value must be positive" }
    IN /\ Cardinality(raised) = Cardinality(NegativeAmounts(l))
       /\ \A j \in raised :
            /\ th[c].res[j].severity = "error"
            /\ th[c].res[j].fieldId = <<"WagesAmt">>
            /\ th[c].res[j].form = <<"W2">>

\* runDiagnostics has returned for a list with a negative and a zero wage
\* amount: one diagnostic.
C20_Witness ==
  \E c \in Calls :
    /\ Returned(c, "runDiagnostics")
    /\ Len(th[c].value) = 2
    /\ th[c].value[1].value = NumV(Dollars(0 - 1000))
    /\ th[c].value[2].value = NumV(0)
    /\ th[c].value[2].fieldId = <<"WagesAmt">>
    /\ Cardinality({ j \in 1..Len(th[c].res) :
                       th[c].res[j].message = "Value must be positive" }) = 1

\* ------------------------------------- runDiagnostics, called twice over
DateV(year) == [k |-> "date", n |-> year, w |-> 0]

\* A Child Tax Credit claim and the dependents it is checked against: an age
\* given as a number, a date of birth given as a date string.
DependentDocs ==
  { DiagDoc(<<"1040">>, <<"CTC">>, v) : v \in {NumV(Dollars(1)), NumV(0)} }
  \cup { DiagDoc(<<"1040">>, <<"dependentAge">>, NumV(Dollars(a))) : a \in {17, 18} }
  \cup { DiagDoc(<<"1040">>, <<"dependentDob">>, DateV(y)) : y \in {2008, 2015} }

RECURSIVE DependentListsOfLen(_)
DependentListsOfLen(n) ==
  IF n = 0 THEN {<<>>}
  ELSE {<<f>> \o l : f \in DiagDocs \cup DependentDocs, l \in DependentListsOfLen(n - 1)}

DependentLists == UNION {DependentListsOfLen(n) : n \in 0..MaxFields}

\* Two calls of runDiagnostics with the same field list, made at any time.
InitDiagnosticsTwice ==
  /\ \E l \in DependentLists :
       th = [c \in Calls |-> FnCall("runDiagnostics", <<>>, l)]
  /\ QuietStore
  /\ FnFrame

NextDiagnosticsTwice == (\E c \in Calls : RunDiagnosticsCall(c)) \/ Tick

SpecDiagnosticsTwice == InitDiagnosticsTwice /\ [][NextDiagnosticsTwice]_vars

\* C21: two calls of runDiagnostics with the same field list return the same
\* diagnostics in the same order, whenever each of them is made, dates of
\* birth included, and the list each was given is as it was.
C21_Deterministic ==
  \A c \in Calls, d \in Calls :
    (/\ Returned(c, "runDiagnostics") /\ Returned(d, "runDiagnostics")
     /\ th[c].value = th[d].value) =>
      th[c].res = th[d].res

\* ------------------------------------------------ verifyChain, and tampering
MaxChain == 3      \* longest audit chain given to verifyChain

\* A createdAt that is missing. A clock value stands for a positive number of
\* milliseconds, so no createdAt the clock gave is falsy.
NoTime == 0 - 1

RECURSIVE InsertByCreatedAt(_, _)
\* e placed behind every entry that is not later than it
InsertByCreatedAt(sorted, e) ==
  IF sorted = <<>> THEN <<e>>
  ELSE IF Head(sorted).createdAt <= e.createdAt
    THEN <<Head(sorted)>> \o InsertByCreatedAt(Tail(sorted), e)
    ELSE <<e>> \o sorted

RECURSIVE SortByCreatedAt(_)
\* [...entries].sort((a, b) => (a.createdAt || 0) - (b.createdAt || 0)): stable
SortByCreatedAt(entries) ==
  IF entries = <<>> THEN <<>>
  ELSE InsertByCreatedAt(SortByCreatedAt(SubSeq(entries, 1, Len(entries) - 1)),
                         entries[Len(entries)])

verifyEntry(entry, previousHash) ==
  /\ entry.hashChainEntry # NoHash
  /\ entry.createdAt # NoTime
  /\ hashEntry(previousHash, entry.returnId, entry.key, entry.userId, entry.action,
               entry.createdAt) = entry.hashChainEntry

RECURSIVE verifyFrom(_, _, _)
\* the loop of verifyChain from entry i of the sorted entries on
verifyFrom(sortedEntries, i, previousHash) ==
  IF i > Len(sortedEntries)
    THEN [valid |-> TRUE, invalidIndex |-> 0 - 1,
          message |-> [text |-> "Chain verified", entry |-> Len(sortedEntries)]]
  ELSE IF ~verifyEntry(sortedEntries[i], previousHash)
    THEN [valid |-> FALSE, invalidIndex |-> i - 1,
          message |-> [text |-> "Chain broken at entry", entry |-> i]]
  ELSE verifyFrom(sortedEntries, i + 1, sortedEntries[i].hashChainEntry)

verifyChain(entries) ==
  IF entries = <<>>
    THEN [valid |-> TRUE, invalidIndex |-> 0 - 1,
          message |-> [text |-> "No entries to verify", entry |-> 0]]
    ELSE verifyFrom(SortByCreatedAt(entries), 1, NoHash)

\* The audit entry applyFieldUpdate inserts for an update of key at time t,
\* after the entries the table holds.
ChainedEntry(entries, key, t) ==
  AuditEntry([Idle EXCEPT !.retId = RetId, !.key = key, !.ts = t,
                          !.hash = hashEntry(getLatestHash(entries), RetId, key,
                                             UserId, "field:update", t)],
             NumV(Dollars(20000)), NumV(Dollars(10000)))

RECURSIVE ChainsOfLen(_)
\* The audit tables n updates leave, the clock never running backwards.
ChainsOfLen(n) ==
  IF n = 0 THEN {<<>>}
  ELSE UNION { { Append(ch, ChainedEntry(ch, key, t)) :
                   key \in {K_box1, K_EIN},
                   t \in {u \in 0..MaxClock :
                            \A j \in 1..Len(ch) : ch[j].createdAt <= u} } :
               ch \in ChainsOfLen(n - 1) }

\* The chains that verify as valid.
ValidChains ==
  { ch \in UNION {ChainsOfLen(n) : n \in 1..MaxChain} : verifyChain(ch).valid }

\* What a stored entry can be changed to, one attribute at a time.
Tamperings(e, entries) ==
  { [e EXCEPT !.returnId = "r9"], [e EXCEPT !.key = K_line1z],
    [e EXCEPT !.userId = "u2"], [e EXCEPT !.action = "field:override"],
    [e EXCEPT !.previousValue = NumV(0)], [e EXCEPT !.newValue = NumV(0)],
    [e EXCEPT !.hashChainEntry = NoHash], [e EXCEPT !.hashChainEntry = GENESIS_HASH] }
  \cup { [e EXCEPT !.createdAt = t] : t \in (NoTime..(MaxClock + 1)) \ {e.createdAt} }
  \cup { [e EXCEPT !.hashChainEntry = entries[j].hashChainEntry] :
           j \in {h \in 1..Len(entries) : entries[h].hashChainEntry # e.hashChainEntry} }

InitTamper ==
  /\ \E ch \in ValidChains : audit = ch
  /\ th = [c \in Calls |-> IF c = 1 THEN FnCall("verifyChain", <<>>, NullV) ELSE Idle]
  /\ QuietStore
  /\ now = 0 /\ useKey = FALSE /\ nops = 0 /\ serial = TRUE /\ filings = <<>>

\* A stored entry is modified behind the back of the application; the call
\* that will verify the chain keeps the chain as it was.
TamperEntry ==
  /\ nops = 0
  /\ th[1].pc = "call"
  /\ \E i \in 1..Len(audit) : \E e \in Tamperings(audit[i], audit) :
       /\ audit' = [audit EXCEPT ![i] = e]
       /\ th' = [th EXCEPT ![1].pre = Snapshot, ![1].i = i]
  /\ nops' = 1
  /\ UNCHANGED <<fields, ret, now, useKey, serial, filings>>

VerifyChainCall(c) ==
  /\ th[c].op = "verifyChain" /\ th[c].pc = "call"
  /\ th' = [th EXCEPT ![c].pc = "done", ![c].result = "ok",
                      ![c].res = verifyChain(audit)]
  /\ UNCHANGED <<fields, ret, audit, now, useKey, nops, serial, filings>>

NextTamper == TamperEntry \/ \E c \in Calls : VerifyChainCall(c)

SpecTamper == InitTamper /\ [][NextTamper]_vars

\* verifyChain has returned for a chain of which an entry was modified.
VerifiedTampered(c) == Returned(c, "verifyChain") /\ th[c].i > 0

\* The first position, in createdAt order, at which the chain differs from
\* the chain as it was.
FirstOffending(c) ==
  LET was == SortByCreatedAt(th[c].pre.audit)
      cur == SortByCreatedAt(audit)
  IN CHOOSE p \in 1..Len(cur) :
       cur[p] # was[p] /\ \A q \in 1..(p - 1) : cur[q] = was[q]

\* C22: after any recorded attribute of an entry of a valid chain has been
\* modified, verifyChain returns valid: false, invalidIndex the 0-based
\* position of the first offending entry, and a message naming the entry
\* with the 1-based position; it does not throw.
C22_TamperEvident ==
  \A c \in Calls : VerifiedTampered(c) =>
    /\ th[c].result = "ok"
    /\ th[c].res.valid = FALSE
    /\ th[c].res.invalidIndex = FirstOffending(c) - 1
    /\ th[c].res.message = [text |-> "Chain broken at entry",
                            entry |-> FirstOffending(c)]

\* ------------------------------------------- the store failing a write
\* safePatch(db, 'fields', ...) of the recalculation throws: db.patch failed
\* under both of its signatures. Nothing catches it.
RecalcPatchFails(c) ==
  /\ th[c].pc = "r_patch"
  /\ th' = [th EXCEPT ![c] = [Finish(@, "patch error") EXCEPT !.fault = "patch"]]
  /\ UNCHANGED <<fields, ret, audit, now, useKey, nops, serial, filings>>

\* safePatch(db, 'returns', ...) of the recalculation throws.
RecalcAggregateFails(c) ==
  /\ th[c].pc = "r_lookup"
  /\ th[c].i > Len(th[c].res.updatedFields)
  /\ th' = [th EXCEPT ![c] = [Finish(@, "patch error") EXCEPT !.fault = "aggregate"]]
  /\ UNCHANGED <<fields, ret, audit, now, useKey, nops, serial, filings>>

NextFaulty ==
  \/ Next
  \/ \E c \in Calls : RecalcPatchFails(c) \/ RecalcAggregateFails(c)

SpecFaulty == Init /\ [][NextFaulty]_vars

\* The refund, taxLiability and diagnostics of the return are those of the
\* engine result.
AggregateOf(r, res) ==
  /\ r.refund = res.refund
  /\ r.taxLiability = res.taxLiability
  /\ r.diagnostics = res.diagnostics

\* C23: when a recalculation has failed at a store patch, no field holds a
\* value this recalculation wrote while the return's refund, taxLiability and
\* diagnostics are not those of the same engine result. (The store has no
\* attribute that marks a return as inconsistent.)
C23_RecalcUnitOfWork ==
  \A c \in Calls :
    (th[c].pc = "done" /\ th[c].result = "patch error") =>
      ~(/\ \E k \in DOMAIN fields : fields[k] # th[c].pre.fields[k]
        /\ ~AggregateOf(ret, th[c].res))

\* C24: whatever audit-producing operations have run on the return, within
\* one millisecond or not, verifyChain over its audit entries returns
\* valid: true.
C24_ChainVerifiable == verifyChain(audit).valid

\* The step is a field patch of the Recalculation Orchestrator.
OrchestratorWrite == \E c \in Calls : th[c].pc = "r_patch" /\ th'[c].pc = "r_lookup"

\* Every field the step has written has calculated = true if the step is the
\* orchestrator's and calculated = false if it is not.
WrittenAsClaimed ==
  \A k \in DOMAIN fields :
    fields'[k] # fields[k] => (fields'[k].calculated <=> OrchestratorWrite)

\* C25: the calculated flag of a field is true exactly when its value was
\* last written by the Recalculation Orchestrator: a write by the
\* orchestrator leaves it true, a write by applyFieldUpdate,
\* importPriorYearData or the syncCalculations cascade leaves it false.
C25_CalculatedProvenance == [][WrittenAsClaimed]_vars

\* The step is the event append of call c's applyFieldUpdate, which then
\* returns { updated: true }.
AppendsEvent(c) == th[c].pc = "a_events" /\ th'[c].pc = "r_return"

\* C26: the step that completes an applyFieldUpdate leaves the return's
\* events as they were in the store with one field:update event added at the
\* end, and no other step changes them; this also when two applyFieldUpdate
\* calls on the return interleave.
C26_AppendOnlyEvents ==
  [][/\ \A c \in Calls :
          AppendsEvent(c) =>
            /\ Len(ret'.events) = Len(ret.events) + 1
            /\ SubSeq(ret'.events, 1, Len(ret.events)) = ret.events
            /\ ret'.events[Len(ret'.events)].type = "field:update"
     /\ (\A c \in Calls : ~AppendsEvent(c)) => ret'.events = ret.events]_vars

\* ------------------------------------------------------------ convex/filing
MaxFilings == 2    \* filing records created in one behaviour
MaxRetries == 3

\* generateFilingId: the time of the call in base 36 behind "FIL"; two calls
\* of one millisecond get one id.
generateFilingId(t) == t

FilingRecord(t, returnId, status) ==
  [filingId |-> generateFilingId(t), returnId |-> returnId, status |-> status,
   retryCount |-> 0]

\* db.query('filings').withIndex('byFilingId', ...).collect(), filings[0]: the
\* position of the first record with the id, 0 when there is none.
FindFiling(filingId) ==
  IF \E j \in 1..Len(filings) : filings[j].filingId = filingId
    THEN CHOOSE j \in 1..Len(filings) :
           /\ filings[j].filingId = filingId
           /\ \A h \in 1..(j - 1) : filings[h].filingId # filingId
    ELSE 0

FilingIds == 0..MaxClock
TransmissionStatuses == {"transmitted", "accepted", "rejected", "error"}

\* The last filing mutation called: its name, its filingId or returnId, the
\* status it was given and how it ended.
FilingCall(op, filingId, returnId, status, outcome) ==
  [Idle EXCEPT !.op = op, !.pc = "done", !.ts = filingId, !.retId = returnId,
               !.key = status, !.result = outcome]

Called(call) == th' = [th EXCEPT ![1] = call]

PrepareOutcomeUnchecked(r) == IF r # RetId THEN "Return not found" ELSE "ok"

\* The two checks of prepareFiling on the return it looked up.
PrepareOutcome(r) ==
  IF r # RetId THEN "Return not found"
  ELSE IF ret.isLocked THEN "Return is locked and cannot be modified"
  ELSE "ok"

prepareFiling ==
  /\ Len(filings) < MaxFilings
  /\ \E r \in RetIds :
       /\ filings' = IF PrepareOutcome(r) = "ok"
                       THEN Append(filings, FilingRecord(now, r, "prepared"))
                       ELSE filings
       /\ Called(FilingCall("prepareFiling", 0, r, <<>>, PrepareOutcome(r)))
  /\ UNCHANGED <<fields, ret, audit, now, useKey, nops, serial>>

\* The return is neither looked up nor checked for its lock.
createFilingRecord ==
  /\ Len(filings) < MaxFilings
  /\ \E r \in RetIds :
       /\ filings' = Append(filings, FilingRecord(now, r, "pending"))
       /\ Called(FilingCall("createFilingRecord", 0, r, <<>>, "ok"))
  /\ UNCHANGED <<fields, ret, audit, now, useKey, nops, serial>>

recordFilingTransmission ==
  \E filingId \in FilingIds, status \in TransmissionStatuses :
    LET j == FindFiling(filingId)
    IN /\ IF j = 0
            THEN /\ Called(FilingCall("recordFilingTransmission", filingId, "",
                                      <<status>>, "Filing not found"))
                 /\ UNCHANGED <<filings, ret>>
            ELSE /\ filings' = [filings EXCEPT ![j].status = status]
                 /\ ret' = IF status = "accepted" /\ filings[j].returnId = RetId
                             THEN [ret EXCEPT !.isLocked = TRUE] ELSE ret
                 /\ Called(FilingCall("recordFilingTransmission", filingId, "",
                                      <<status>>, "ok"))
       /\ UNCHANGED <<fields, audit, now, useKey, nops, serial>>

RetryOutcomeOffByOne(filing) ==
  IF filing.status \notin {"rejected", "error"} THEN "Cannot retry filing"
  ELSE IF filing.retryCount > MaxRetries THEN "Maximum retry attempts exceeded"
  ELSE "ok"

\* The two checks of retryFiling on the record it found.
RetryOutcome(filing) ==
  IF filing.status \notin {"rejected", "error"} THEN "Cannot retry filing"
  ELSE IF filing.retryCount >= MaxRetries THEN "Maximum retry attempts exceeded"
  ELSE "ok"

retryFiling ==
  \E filingId \in FilingIds :
    LET j == FindFiling(filingId)
        outcome == IF j = 0 THEN "Filing not found" ELSE RetryOutcome(filings[j])
    IN /\ filings' = IF outcome = "ok"
                       THEN [filings EXCEPT ![j].status = "prepared",
                                            ![j].retryCount = @ + 1]
                       ELSE filings
       /\ Called(FilingCall("retryFiling", filingId, "", <<>>, outcome))
       /\ UNCHANGED <<fields, ret, audit, now, useKey, nops, serial>>

\* The check of cancelFiling on the record it found.
CancelOutcome(filing) ==
  IF filing.status \notin {"pending", "prepared"} THEN "Cannot cancel filing" ELSE "ok"

cancelFiling ==
  \E filingId \in FilingIds :
    LET j == FindFiling(filingId)
        outcome == IF j = 0 THEN "Filing not found" ELSE CancelOutcome(filings[j])
    IN /\ filings' = IF outcome = "ok"
                       THEN [filings EXCEPT ![j].status = "cancelled"]
                       ELSE filings
       /\ Called(FilingCall("cancelFiling", filingId, "", <<>>, outcome))
       /\ UNCHANGED <<fields, ret, audit, now, useKey, nops, serial>>

InitFiling ==
  /\ QuietStore
  /\ FnFrame
  /\ th = [c \in Calls |-> Idle]

NextFiling ==
  \/ prepareFiling
  \/ createFilingRecord
  \/ recordFilingTransmission
  \/ retryFiling
  \/ cancelFiling
  \/ Tick

SpecFiling == InitFiling /\ [][NextFiling]_vars

\* The step is a call of the filing mutation op (a failed call repeated with
\* the same arguments is a step that changes nothing).
FilingStep(op) ==
  /\ th'[1].op = op
  /\ th' # th \/ filings' # filings \/ ret' # ret

\* The filing record the call of this step was about, before the step.
Target == filings[FindFiling(th'[1].ts)]
Found == FindFiling(th'[1].ts) > 0
Succeeded == th'[1].result = "ok"

\* C27: retryFiling succeeds exactly for a filing that is rejected or in
\* error with fewer than 3 retries, and then sets its status to prepared and
\* adds 1 to its retryCount; cancelFiling succeeds exactly for a filing that
\* is pending or prepared, and sets it to cancelled; a call that fails changes
\* no filing and not the return; no filing ever has a retryCount above 3.
C27_BoundedRetry ==
  [][/\ \A j \in 1..Len(filings') : filings'[j].retryCount <= 3
     /\ FilingStep("retryFiling") =>
          /\ Succeeded <=>
               (Found /\ Target.status \in {"rejected", "error"}
                      /\ Target.retryCount < 3)
          /\ filings' = IF Succeeded
                          THEN [filings EXCEPT
                                  ![FindFiling(th'[1].ts)] =
                                    [Target EXCEPT !.status = "prepared",
                                                   !.retryCount = Target.retryCount + 1]]
                          ELSE filings
          /\ ret' = ret
     /\ FilingStep("cancelFiling") =>
          /\ Succeeded <=> (Found /\ Target.status \in {"pending", "prepared"})
          /\ filings' = IF Succeeded
                          THEN [filings EXCEPT
                                  ![FindFiling(th'[1].ts)] =
                                    [Target EXCEPT !.status = "cancelled"]]
                          ELSE filings
          /\ ret' = ret]_vars

\* A fourth retry of a filing has failed: the filing was retried three times
\* and is rejected again.
C27_Witness ==
  /\ th[1].op = "retryFiling"
  /\ th[1].result = "Maximum retry attempts exceeded"
  /\ filings[FindFiling(th[1].ts)].retryCount = 3
  /\ filings[FindFiling(th[1].ts)].status = "rejected"

\* The filing operations that follow an acceptance.
LaterFilingOps == {"recordFilingTransmission", "retryFiling", "cancelFiling", "prepareFiling"}

\* C28: the step in which recordFilingTransmission records accepted for a
\* filing of the return leaves the return locked; no step of
\* recordFilingTransmission, retryFiling, cancelFiling or prepareFiling on a
\* locked return unlocks it or adds a filing record, and prepareFiling on a
\* locked return fails.
C28_AcceptanceLocks ==
  [][/\ (/\ FilingStep("recordFilingTransmission") /\ Succeeded
         /\ th'[1].key = <<"accepted">> /\ Target.returnId = RetId) =>
          /\ ret'.isLocked
          /\ filings'[FindFiling(th'[1].ts)].status = "accepted"
     /\ \A op \in LaterFilingOps :
          (FilingStep(op) /\ ret.isLocked) =>
            /\ ret'.isLocked
            /\ Len(filings') = Len(filings)
     /\ (FilingStep("prepareFiling") /\ ret.isLocked /\ th'[1].retId = RetId) =>
          ~Succeeded /\ filings' = filings]_vars

\* prepareFiling has failed on the return that an accepted filing locked.
C28_Witness ==
  /\ th[1].op = "prepareFiling"
  /\ th[1].retId = RetId
  /\ th[1].result = "Return is locked and cannot be modified"
  /\ ret.isLocked
  /\ \E j \in 1..Len(filings) :
       filings[j].status = "accepted" /\ filings[j].returnId = RetId

\* The return as an earlier syncCalculations has left it: the cascade has
\* run from one of its sources over the fields the return was created with.
InitAfterSync ==
  /\ \E f \in EmbeddedForms, k \in SyncKeys, v \in InputValues :
       /\ fields = cascade(InitialFields(FALSE, NullV), canonicalDot(k), v)
       /\ ret = [isLocked |-> FALSE, refund |-> 0, taxLiability |-> 0,
                 diagnostics |-> <<>>, events |-> <<>>, forms |-> f]
  /\ FnFrame
  /\ th = [c \in Calls |-> Idle]

SpecAfterSync == InitAfterSync /\ [][Next]_vars

\* The self-employment tax that the engine includes in taxLiability for the
\* forms of the return.
IncludedSeTax ==
  LET profit == ValueOr0(ret.forms, K_netProfit)
  IN IF profit > 0 THEN SeTaxOf(profit) ELSE 0

\* C29: when a recalculation completes, an existing SchSE.seTax field
\* that is not overridden holds the self-employment tax included in the
\* taxLiability the recalculation persisted: 15.3% of a positive Schedule C
\* profit, 0 otherwise.
C29_StoredSeTax ==
  [][\A c \in Calls :
       (/\ th[c].pc = "r_lookup" /\ th'[c].pc = "done" /\ th'[c].result = "ok"
        /\ K_seTax \in DOMAIN fields'
        /\ ~fields'[K_seTax].overridden) =>
         /\ ret'.taxLiability = th[c].res.taxLiability
         /\ fields'[K_seTax].value = NumV(IncludedSeTax)]_vars

\* ------------------------------------------ runDiagnosticsForReturn (query)
\* convex/diagnostics.ts: the documents of the fields table of the return, as
\* stored, in the order of the index.
StoredFieldList ==
  LET Stored(k) == k \in DOMAIN fields
      keys == SelectSeq(FieldOrder, Stored)
  IN [j \in 1..Len(keys) |-> DiagDoc(keys[j][1], keys[j][2], fields[keys[j]].value)]

runDiagnosticsForReturn == runDiagnostics(StoredFieldList)

FormatMessages ==
  {"Invalid SSN format (expected XXX-XX-XXXX)", "Invalid EIN format (expected XX-XXXXXXX)"}

\* The SSN/EIN format errors that the diagnostics of the return report for
\* the field with the given key.
FormatErrorsFor(key) ==
  LET diags == runDiagnosticsForReturn
  IN { j \in 1..Len(diags) :
         /\ diags[j].fieldId = canonicalDot(key[2])
         /\ diags[j].form = key[1]
         /\ diags[j].message \in FormatMessages }

\* updateField has returned after writing a well-formed EIN to the EIN field,
\* and the field still holds what it wrote.
WroteWellFormed(c) ==
  /\ th[c].op = "updateField" /\ th[c].pc = "done" /\ th[c].result = "ok"
  /\ th[c].key = K_EIN /\ WellFormed(th[c].value)
  /\ fields[K_EIN].value = maybeEncryptValue(useKey, th[c].value)

\* C30: after applyFieldUpdate has written a well-formed EIN to the EIN
\* field, the diagnostics run over the stored fields of the return report
\* no SSN/EIN format error for that field.
C30_StoredPiiValid ==
  \A c \in Calls : WroteWellFormed(c) => FormatErrorsFor(K_EIN) = {}

====
